---- MODULE Spec2Model ----
(***************************************************************************)
(* dummycloud-rust: the UDP receive loop of src/main.rs (decode, parse,    *)
(* route, encode, send) and the message types of src/payload.rs.           *)
(*                                                                         *)
(* Bytes are integers 0..255, packets and texts are sequences of bytes.    *)
(* JSON texts are real ASCII; serde_json's reader and writer are modelled  *)
(* for the JSON subset the catalogue below uses (no string escapes, no     *)
(* exponents, blanks as the only white space).                             *)
(***************************************************************************)
EXTENDS Integers, Sequences, FiniteSets, TLC

(***************************************************************************)
(* Bounds of the model.                                                    *)
(***************************************************************************)
\* datagrams the loop receives before the model stops taking new ones
MaxDatagrams == 2

(***************************************************************************)
(* Program constants.                                                      *)
(***************************************************************************)
\* let header = &buf[..32]
HeaderLen == 32
\* let mut buf = [0; 1024]
BufSize == 1024
\* one byte (put_u8)
ByteMod == 256

(***************************************************************************)
(* Sequence helpers.                                                       *)
(***************************************************************************)
\* &s[from..] with 0-based `from` (Rust slice from an offset to the end)
SliceFrom(s, from) == SubSeq(s, from + 1, Len(s))

\* &s[..to] with 0-based exclusive `to`
SliceTo(s, to) == SubSeq(s, 1, to)

\* [b; n]
Repeat(b, n) == [i \in 1..n |-> b]

RECURSIVE SumRange(_, _, _)
\* s[lo] + ... + s[hi], by halves
SumRange(s, lo, hi) ==
    IF lo > hi THEN 0
    ELSE IF lo = hi THEN s[lo]
    ELSE LET mid == (lo + hi) \div 2
         IN  SumRange(s, lo, mid) + SumRange(s, mid + 1, hi)

SumSeq(s) == SumRange(s, 1, Len(s))

(***************************************************************************)
(* Unsigned integers wider than a byte are sequences of 16-bit limbs, most *)
(* significant first: a u32 is two limbs, a u64 four.                      *)
(***************************************************************************)
LimbMod == ByteMod * ByteMod

U32Zero == <<0, 0>>

\* a small natural number (below 2^31) as a u32
U32(n) == << (n \div LimbMod) % LimbMod, n % LimbMod >>

\* variant: the conversion saturates at the largest u32 instead of truncating
AsU32_saturating(x) ==
    IF \A i \in 1..(Len(x) - 2) : x[i] = 0
    THEN SubSeq(x, Len(x) - 1, Len(x))
    ELSE <<65535, 65535>>

\* `x as u32` of a u64: the low 32 bits
AsU32(x) == SubSeq(x, Len(x) - 1, Len(x))

RECURSIVE AddSmall(_, _)
\* x + k for 0 <= k < 2^16, wrapping at the width of x
AddSmall(x, k) ==
    IF x = <<>> THEN <<>>
    ELSE LET n == Len(x)
             t == x[n] + k
         IN  AddSmall(SubSeq(x, 1, n - 1), t \div LimbMod) \o <<t % LimbMod>>

RECURSIVE DivTen(_, _)
\* long division by ten with `carry` coming in from the left: [q, r]
DivTen(x, carry) ==
    IF x = <<>> THEN [q |-> <<>>, r |-> carry]
    ELSE LET t == carry * LimbMod + x[1]
             rest == DivTen(Tail(x), t % 10)
         IN  [q |-> <<t \div 10>> \o rest.q, r |-> rest.r]

IsZero(x) == \A i \in 1..Len(x) : x[i] = 0

RECURSIVE DecLimbs(_)
\* the decimal digits (ASCII) of an unsigned integer, as itoa writes them
DecLimbs(x) ==
    LET d == DivTen(x, 0)
    IN  IF IsZero(d.q) THEN <<48 + d.r>> ELSE DecLimbs(d.q) \o <<48 + d.r>>

RECURSIVE ReadLimbs(_, _)
\* the value of ASCII digits ds (at most ten of them) after acc = <<hi, lo>>;
\* hi is left unreduced, so that hi >= 2^16 shows the overflow of a u32
ReadLimbs(ds, acc) ==
    IF ds = <<>> THEN acc
    ELSE LET lo == acc[2] * 10 + (ds[1] - 48)
         IN  ReadLimbs(Tail(ds), << acc[1] * 10 + (lo \div LimbMod), lo % LimbMod >>)

\* Buf::get_u32 on a slice: the first four bytes, big-endian
get_u32(s) == << s[1] * ByteMod + s[2], s[3] * ByteMod + s[4] >>

\* BufMut::put_u32: four bytes, big-endian
put_u32(x) ==
    << x[1] \div ByteMod, x[1] % ByteMod, x[2] \div ByteMod, x[2] % ByteMod >>

\* a two-byte big-endian length field
put_u16(n) == << (n \div ByteMod) % ByteMod, n % ByteMod >>

(***************************************************************************)
(* ASCII texts of the program (string literals of src/main.rs and the      *)
(* field names of src/payload.rs).                                         *)
(***************************************************************************)
M_otc_info == <<95, 111, 116, 99, 46, 105, 110, 102, 111>>   \* _otc.info
M_props == <<112, 114, 111, 112, 115>>   \* props
M_event_status == <<101, 118, 101, 110, 116, 46, 115, 116, 97, 116, 117, 115>>   \* event.status
M_event_low_power_back == <<101, 118, 101, 110, 116, 46, 108, 111, 119, 95, 112, 111, 119, 101, 114, 95, 98, 97, 99, 107>>   \* event.low_power_back
M_sync_gen_presigned_url == <<95, 115, 121, 110, 99, 46, 103, 101, 110, 95, 112, 114, 101, 115, 105, 103, 110, 101, 100, 95, 117, 114, 108>>   \* _sync.gen_presigned_url
M_sync_batch_gen_room_up_url == <<95, 115, 121, 110, 99, 46, 98, 97, 116, 99, 104, 95, 103, 101, 110, 95, 114, 111, 111, 109, 95, 117, 112, 95, 117, 114, 108>>   \* _sync.batch_gen_room_up_url
K_method == <<109, 101, 116, 104, 111, 100>>   \* method
K_partner_id == <<112, 97, 114, 116, 110, 101, 114, 95, 105, 100>>   \* partner_id
K_id == <<105, 100>>   \* id
K_params == <<112, 97, 114, 97, 109, 115>>   \* params
K_result == <<114, 101, 115, 117, 108, 116>>   \* result
S_ok == <<111, 107>>   \* ok
S_ip == <<49, 51, 48, 46, 56, 51, 46, 52, 55, 46, 49, 56, 49>>   \* 130.83.47.181
S_url == <<104, 116, 116, 112, 58, 47, 47, 117, 115, 46, 111, 116, 116, 46, 105, 111, 46, 109, 105, 46, 99, 111, 109, 47, 114, 111, 98, 111, 109, 97, 112>>   \* http://us.ott.io.mi.com/robomap
S_something == <<115, 111, 109, 101, 116, 104, 105, 110, 103>>   \* something
S_PUT == <<80, 85, 84>>   \* PUT
S_password == <<112, 97, 115, 115, 119, 111, 114, 100>>   \* password

(***************************************************************************)
(* serde_json::Value                                                       *)
(***************************************************************************)
JNull == [t |-> "null"]
JBool(b) == [t |-> "bool", b |-> b]
\* an integer number as written: its sign and its decimal digits (ASCII)
JNum(neg, digits) == [t |-> "num", neg |-> neg, digits |-> digits]
\* a number written with a fraction (its digits are not kept)
JFloat == [t |-> "float"]
JStr(s) == [t |-> "str", s |-> s]
JArr(a) == [t |-> "arr", a |-> a]
\* an object: its members in order, each [k |-> name, v |-> value]
JObj(m) == [t |-> "obj", m |-> m]
Member(k, v) == [k |-> k, v |-> v]

(***************************************************************************)
(* serde_json's compact writer (to_vec).                                   *)
(***************************************************************************)
\* a small natural number (below 2^31) in decimal digits
Dec(n) == DecLimbs(U32(n))

Quoted(s) == <<34>> \o s \o <<34>>

RECURSIVE WriteValue(_)
RECURSIVE WriteElems(_)
RECURSIVE WriteMembers(_)
WriteElems(a) ==
    IF a = <<>> THEN <<>>
    ELSE IF Len(a) = 1 THEN WriteValue(a[1])
    ELSE WriteValue(a[1]) \o <<44>> \o WriteElems(Tail(a))

WriteMembers(m) ==
    IF m = <<>> THEN <<>>
    ELSE IF Len(m) = 1 THEN Quoted(m[1].k) \o <<58>> \o WriteValue(m[1].v)
    ELSE Quoted(m[1].k) \o <<58>> \o WriteValue(m[1].v) \o <<44>> \o WriteMembers(Tail(m))

WriteValue(v) ==
    CASE v.t = "null" -> <<110, 117, 108, 108>>
      [] v.t = "bool" -> IF v.b THEN <<116, 114, 117, 101>> ELSE <<102, 97, 108, 115, 101>>
      [] v.t = "num" -> IF v.neg THEN <<45>> \o v.digits ELSE v.digits
      [] v.t = "str" -> Quoted(v.s)
      [] v.t = "arr" -> <<91>> \o WriteElems(v.a) \o <<93>>
      [] v.t = "obj" -> <<123>> \o WriteMembers(v.m) \o <<125>>

(***************************************************************************)
(* serde_json's reader, to a Value.                                        *)
(***************************************************************************)
NoParse == [ok |-> FALSE, v |-> JNull, i |-> 0]
Parsed(v, i) == [ok |-> TRUE, v |-> v, i |-> i]

IsDigit(b) == b >= 48 /\ b <= 57

At(s, i) == IF i >= 1 /\ i <= Len(s) THEN s[i] ELSE -1

RECURSIVE SkipWs(_, _)
SkipWs(s, i) == IF At(s, i) = 32 THEN SkipWs(s, i + 1) ELSE i

RECURSIVE DigitsEnd(_, _)
\* the index after the run of digits starting at i
DigitsEnd(s, i) == IF IsDigit(At(s, i)) THEN DigitsEnd(s, i + 1) ELSE i

ParseNumber(s, i) ==
    LET neg == At(s, i) = 45
        d == IF neg THEN i + 1 ELSE i
        e == DigitsEnd(s, d)
    IN  IF e = d THEN NoParse
        ELSE IF At(s, d) = 48 /\ e > d + 1 THEN NoParse
        ELSE IF At(s, e) = 46
             THEN LET f == DigitsEnd(s, e + 1)
                  IN  IF f = e + 1 THEN NoParse ELSE Parsed(JFloat, f)
        ELSE Parsed(JNum(neg, SubSeq(s, d, e - 1)), e)

RECURSIVE StringEnd(_, _)
\* the index of the closing quote of a string whose first character is at i,
\* or 0 when there is none (or the string holds an escape or a control byte)
StringEnd(s, i) ==
    LET b == At(s, i)
    IN  IF b = 34 THEN i
        ELSE IF b < 32 \/ b = 92 THEN 0
        ELSE StringEnd(s, i + 1)

ParseString(s, i) ==
    LET e == StringEnd(s, i + 1)
    IN  IF At(s, i) # 34 \/ e = 0 THEN NoParse
        ELSE Parsed(JStr(SubSeq(s, i + 1, e - 1)), e + 1)

ParseWord(s, i, word, v) ==
    IF i + Len(word) - 1 <= Len(s) /\ SubSeq(s, i, i + Len(word) - 1) = word
    THEN Parsed(v, i + Len(word))
    ELSE NoParse

RECURSIVE ParseValue(_, _)
RECURSIVE ParseElems(_, _, _)
RECURSIVE ParseMembers(_, _, _)
\* the elements of an array after "[" or ",", up to and including "]"
ParseElems(s, i, acc) ==
    LET r == ParseValue(s, i)
        j == SkipWs(s, r.i)
    IN  IF ~r.ok THEN NoParse
        ELSE IF At(s, j) = 44 THEN ParseElems(s, j + 1, Append(acc, r.v))
        ELSE IF At(s, j) = 93 THEN Parsed(JArr(Append(acc, r.v)), j + 1)
        ELSE NoParse

\* the members of an object after "{" or ",", up to and including "}"
ParseMembers(s, i, acc) ==
    LET k == ParseString(s, SkipWs(s, i))
        c == SkipWs(s, k.i)
        r == ParseValue(s, c + 1)
        j == SkipWs(s, r.i)
    IN  IF ~k.ok \/ At(s, c) # 58 THEN NoParse
        ELSE IF ~r.ok THEN NoParse
        ELSE IF At(s, j) = 44 THEN ParseMembers(s, j + 1, Append(acc, Member(k.v.s, r.v)))
        ELSE IF At(s, j) = 125 THEN Parsed(JObj(Append(acc, Member(k.v.s, r.v))), j + 1)
        ELSE NoParse

ParseValue(s, i0) ==
    LET i == SkipWs(s, i0)
        b == At(s, i)
    IN  CASE b = 123 ->
               IF At(s, SkipWs(s, i + 1)) = 125
               THEN Parsed(JObj(<<>>), SkipWs(s, i + 1) + 1)
               ELSE ParseMembers(s, i + 1, <<>>)
          [] b = 91 ->
               IF At(s, SkipWs(s, i + 1)) = 93
               THEN Parsed(JArr(<<>>), SkipWs(s, i + 1) + 1)
               ELSE ParseElems(s, i + 1, <<>>)
          [] b = 34 -> ParseString(s, i)
          [] b = 45 \/ IsDigit(b) -> ParseNumber(s, i)
          [] b = 110 -> ParseWord(s, i, <<110, 117, 108, 108>>, JNull)
          [] b = 116 -> ParseWord(s, i, <<116, 114, 117, 101>>, JBool(TRUE))
          [] b = 102 -> ParseWord(s, i, <<102, 97, 108, 115, 101>>, JBool(FALSE))
          [] OTHER -> NoParse

\* a whole text as one JSON value: nothing but blanks may follow it
ReadJson(text) ==
    LET r == ParseValue(text, 1)
    IN  IF r.ok /\ SkipWs(text, r.i) = Len(text) + 1 THEN r ELSE NoParse

(***************************************************************************)
(* src/payload.rs                                                          *)
(***************************************************************************)
\* Option<T>
None == <<>>
Some(x) == <<x>>

\* Result<T, E>, the error's content left out
Err == [ok |-> FALSE]
Ok(x) == [ok |-> TRUE, val |-> x]

\* struct MessagePayload { method, partner_id, id, params }
MessagePayload(method, partner_id, id, params) ==
    [method |-> method, partner_id |-> partner_id, id |-> id, params |-> params]

\* the values an object's members give for the field `name`, in order
FieldValues(m, name) ==
    LET Named(x) == x.k = name
        Sel == SelectSeq(m, Named)
    IN  [i \in 1..Len(Sel) |-> Sel[i].v]

\* String: a JSON string
IsString(v) == v.t = "str"

\* Option<String>: null or a JSON string
IsOptionString(v) == v.t = "null" \/ v.t = "str"

\* u32: a non-negative integer below 2^32
IsU32(v) ==
    /\ v.t = "num"
    /\ ~v.neg
    /\ Len(v.digits) <= 10
    /\ ReadLimbs(v.digits, U32Zero)[1] < LimbMod

ToU32(v) == ReadLimbs(v.digits, U32Zero)

ToOptionString(v) == IF v.t = "str" THEN Some(v.s) ELSE None

\* #[derive(Deserialize)] for MessagePayload, from a map: a field given twice
\* is an error, an unknown field is ignored, a missing Option is None, any
\* other missing field is an error (serde_json::Value has no default)
DeserializeMap(m) ==
    LET method == FieldValues(m, K_method)
        partner == FieldValues(m, K_partner_id)
        id == FieldValues(m, K_id)
        params == FieldValues(m, K_params)
    IN  IF Len(method) # 1 \/ Len(id) # 1 \/ Len(params) # 1 \/ Len(partner) > 1
        THEN Err
        ELSE IF ~IsString(method[1]) \/ ~IsU32(id[1]) THEN Err
        ELSE IF Len(partner) = 1 /\ ~IsOptionString(partner[1]) THEN Err
        ELSE Ok(MessagePayload(method[1].s,
                               IF Len(partner) = 1 THEN ToOptionString(partner[1]) ELSE None,
                               ToU32(id[1]),
                               params[1]))

\* #[derive(Deserialize)] for MessagePayload, from a sequence: the four fields
\* in declaration order, no fewer and no more
DeserializeSeq(a) ==
    IF Len(a) # 4 THEN Err
    ELSE IF ~IsString(a[1]) \/ ~IsOptionString(a[2]) \/ ~IsU32(a[3]) THEN Err
    ELSE Ok(MessagePayload(a[1].s, ToOptionString(a[2]), ToU32(a[3]), a[4]))

\* serde_json::from_str::<MessagePayload>
from_str(text) ==
    LET r == ReadJson(text)
    IN  IF ~r.ok THEN Err
        ELSE IF r.v.t = "obj" THEN DeserializeMap(r.v.m)
        ELSE IF r.v.t = "arr" THEN DeserializeSeq(r.v.a)
        ELSE Err

\* variant: the id is left at its default instead of being copied
ResponsePayload_new_default_id(id, result) == [id |-> U32Zero, result |-> result]

\* ResponsePayload::new
ResponsePayload_new(id, result) == [id |-> id, result |-> result]

\* #[derive(Serialize)] for ResponsePayload: the fields in declaration order
Serialize(reply) ==
    JObj(<< Member(K_id, JNum(FALSE, DecLimbs(reply.id))),
            Member(K_result, reply.result) >>)

\* serde_json::to_vec(&reply_json), when it succeeds
to_vec(reply) == WriteValue(Serialize(reply))

(***************************************************************************)
(* The routing table of main (src/main.rs, lines 107-154).  json! builds   *)
(* objects as serde_json::Map, which keeps its keys sorted.                *)
(***************************************************************************)
OtcEndpoint ==
    JObj(<< Member(<<105, 112>>, JStr(S_ip)),                 \* ip
            Member(<<112, 111, 114, 116>>, JNum(FALSE, Dec(8053))) >>)   \* port

OtcInfoResult ==
    JObj(<< Member(<<111, 116, 99, 95, 108, 105, 115, 116>>, JArr(<<OtcEndpoint>>)),   \* otc_list
            Member(<<111, 116, 99, 95, 116, 101, 115, 116>>,                         \* otc_test
                   JObj(<< Member(<<102, 105, 114, 115, 116, 116, 101, 115, 116>>,   \* firsttest
                                  JNum(FALSE, Dec(1193))),
                           Member(<<105, 110, 116, 101, 114, 118, 97, 108>>,         \* interval
                                  JNum(FALSE, Dec(1800))),
                           Member(<<108, 105, 115, 116>>, JArr(<<OtcEndpoint>>)) >>)) >>)   \* list

\* variant: another literal
OkResult_uppercase == JStr(<<79, 75>>)   \* OK

\* serde_json::to_value("ok"), when it succeeds
OkResult == JStr(S_ok)

\* now is SystemTime::now().duration_since(UNIX_EPOCH).unwrap().as_secs()
PresignedUrlResult(now) ==
    JObj(<< Member(<<>>,
            JObj(<< Member(<<101, 120, 112, 105, 114, 101, 115, 95, 116, 105, 109, 101>>,   \* expires_time
                           JNum(FALSE, DecLimbs(AddSmall(now, 3600)))),
                    Member(K_method, JStr(S_PUT)),
                    Member(<<111, 98, 106, 95, 110, 97, 109, 101>>, JStr(S_something)),     \* obj_name
                    Member(S_ok, JBool(TRUE)),
                    Member(<<112, 119, 100>>, JStr(S_password)),                            \* pwd
                    Member(<<117, 114, 108>>, JStr(S_url)) >>)) >>)                         \* url

RoomUpUrl(d) == JStr(S_url \o <<47, d>>)

\* variant: the four URLs are numbered from 0
BatchGenRoomUpUrlResult_from_zero ==
    JArr(<< RoomUpUrl(48), RoomUpUrl(49), RoomUpUrl(50), RoomUpUrl(51) >>)

BatchGenRoomUpUrlResult ==
    JArr(<< RoomUpUrl(49), RoomUpUrl(50), RoomUpUrl(51), RoomUpUrl(52) >>)

\* the methods whose arm calls serde_json::to_value("ok")?
OkMethods == { M_props, M_event_status, M_event_low_power_back }

\* variant: the default arm answers "ok" instead of continuing
RouteResult_default_ok(method, now) ==
    CASE method = M_otc_info -> Some(OtcInfoResult)
      [] method = M_sync_gen_presigned_url -> Some(PresignedUrlResult(now))
      [] method = M_sync_batch_gen_room_up_url -> Some(BatchGenRoomUpUrlResult)
      [] OTHER -> Some(OkResult)

\* the match on response_function: the result value of the arm taken, None
\* for the default arm (`continue`)
RouteResult(method, now) ==
    CASE method = M_otc_info -> Some(OtcInfoResult)
      [] method \in OkMethods -> Some(OkResult)
      [] method = M_sync_gen_presigned_url -> Some(PresignedUrlResult(now))
      [] method = M_sync_batch_gen_room_up_url -> Some(BatchGenRoomUpUrlResult)
      [] OTHER -> None

(***************************************************************************)
(* create_timesync_packet (src/main.rs, lines 12-37).                      *)
(* now is SystemTime::now().duration_since(UNIX_EPOCH).unwrap().as_secs(), *)
(* a u64; a clock before the epoch is left out.                            *)
(***************************************************************************)
\* variant: the trailing filler is one byte short
create_timesync_packet_short_filler(now) ==
    <<33, 49>> \o <<0, 32>> \o Repeat(255, 8) \o put_u32(AsU32(now)) \o Repeat(255, 15)

create_timesync_packet(now) ==
    <<33, 49>> \o <<0, 32>> \o Repeat(255, 8) \o put_u32(AsU32(now)) \o Repeat(255, 16)

(***************************************************************************)
(* mod codec: UDPCodec.  Its source is not part of the examined files; it  *)
(* is modelled from the specification's description (section 4.1): a       *)
(* symmetric cipher keyed by the cloud key, a checksum in header bytes     *)
(* 16-31, a decode miss for an empty body or a mismatch.  The cipher and   *)
(* the checksum are stand-ins with those properties.                       *)
(***************************************************************************)
UDPCodec_new(cloud_key) == [key |-> cloud_key]

KeyStream(key, i) == IF key = <<>> THEN 0 ELSE key[((i - 1) % Len(key)) + 1]

Encrypt(key, plain) ==
    [i \in 1..Len(plain) |-> (plain[i] + KeyStream(key, i)) % ByteMod]

\* variant: the key stream starts one byte late
Decrypt_late_keystream(key, body) ==
    [i \in 1..Len(body) |-> (body[i] + ByteMod - KeyStream(key, i + 1)) % ByteMod]

Decrypt(key, body) ==
    [i \in 1..Len(body) |-> (body[i] + ByteMod - KeyStream(key, i)) % ByteMod]

\* a UTF-8 continuation byte
IsCont(b) == b >= 128 /\ b <= 191

\* the bytes of the character a lead byte opens, 0 for a byte that opens none
\* (0xC0 and 0xC1 open overlong forms, 0xF5 and above exceed U+10FFFF)
Utf8Width(b) ==
    IF b < 128 THEN 1
    ELSE IF b >= 194 /\ b <= 223 THEN 2
    ELSE IF b >= 224 /\ b <= 239 THEN 3
    ELSE IF b >= 240 /\ b <= 244 THEN 4
    ELSE 0

\* s is well-formed UTF-8: every byte that is no continuation opens a
\* character that is complete (no overlong forms, no surrogates, nothing above
\* U+10FFFF), and every continuation byte belongs to one
IsUtf8(s) ==
    \A i \in 1..Len(s) :
        IF IsCont(s[i])
        THEN \E j \in 1..3 :
                 /\ i - j >= 1
                 /\ ~IsCont(s[i - j])
                 /\ Utf8Width(s[i - j]) > j
                 /\ \A k \in 1..(j - 1) : IsCont(s[i - k])
        ELSE LET w == Utf8Width(s[i])
             IN  /\ w > 0
                 /\ i + w - 1 <= Len(s)
                 /\ \A k \in 1..(w - 1) : IsCont(s[i + k])
                 /\ s[i] = 224 => s[i + 1] >= 160
                 /\ s[i] = 237 => s[i + 1] <= 159
                 /\ s[i] = 240 => s[i + 1] >= 144
                 /\ s[i] = 244 => s[i + 1] <= 143

\* the decrypted bytes as the text decode_response returns (an Option<String>):
\* bytes that are no UTF-8 text are malformed, a decode miss
from_utf8(bytes) == IF IsUtf8(bytes) THEN Some(bytes) ELSE None

Checksum(key, head, body) ==
    Repeat((SumSeq(key) + SumSeq(head) + SumSeq(body)) % ByteMod, 16)

\* the first 16 header bytes: magic, length, reserved, device id, stamp
FrameHead(body_len, device_id, stamp) ==
    <<33, 49>> \o put_u16(HeaderLen + body_len) \o <<0, 0, 0, 0>>
        \o put_u32(device_id) \o put_u32(stamp)

\* a frame as either side builds it
Frame(key, device_id, stamp, plain) ==
    LET body == Encrypt(key, plain)
        head == FrameHead(Len(body), device_id, stamp)
    IN  head \o Checksum(key, head, body) \o body

\* the stamp of a server reply
ReplyStamp == U32(1)

\* UDPCodec::encode_response(&plaintext, device_id)
encode_response(c, plain, device_id) == Frame(c.key, device_id, ReplyStamp, plain)

\* UDPCodec::decode_response(header, encrypted_body) -> Option<String>
decode_response(c, header, encrypted_body) ==
    IF encrypted_body = <<>> THEN None
    ELSE IF SubSeq(header, 1, 4) # <<33, 49>> \o put_u16(HeaderLen + Len(encrypted_body))
    THEN None
    ELSE IF SubSeq(header, 17, 32) # Checksum(c.key, SubSeq(header, 1, 16), encrypted_body)
    THEN None
    ELSE from_utf8(Decrypt(c.key, encrypted_body))

(***************************************************************************)
(* Plaintexts a device may send (the environment's inputs).                *)
(***************************************************************************)

\* {"id":1,"method":"_otc.info","params":{}}   (routed)
Req_otc_info ==
    <<123, 34, 105, 100, 34, 58, 49, 44, 34, 109, 101, 116, 104, 111, 100, 34, 58, 34, 95, 111, 116, 99, 46, 105, 110, 102, 111, 34, 44, 34, 112, 97, 114, 97, 109, 115, 34, 58, 123, 125, 125>>

\* {"method":"props","partner_id":"","id":4294967295,"params":{"ota_state":"idle"}}   (routed; the largest u32 id)
Req_props ==
    <<123, 34, 109, 101, 116, 104, 111, 100, 34, 58, 34, 112, 114, 111, 112, 115, 34, 44, 34, 112, 97, 114, 116, 110, 101, 114, 95, 105, 100, 34, 58, 34, 34, 44, 34, 105, 100, 34, 58, 52, 50, 57, 52, 57, 54, 55, 50, 57, 53, 44, 34, 112, 97, 114, 97, 109, 115, 34, 58, 123, 34, 111, 116, 97, 95, 115, 116, 97, 116, 101, 34, 58, 34, 105, 100, 108, 101, 34, 125, 125>>

\* {"id":0,"method":"props","params":[],"extra":true}   (routed; an unknown field is ignored)
Req_props_extra ==
    <<123, 34, 105, 100, 34, 58, 48, 44, 34, 109, 101, 116, 104, 111, 100, 34, 58, 34, 112, 114, 111, 112, 115, 34, 44, 34, 112, 97, 114, 97, 109, 115, 34, 58, 91, 93, 44, 34, 101, 120, 116, 114, 97, 34, 58, 116, 114, 117, 101, 125>>

\* ["props",null,15,[]]   (the struct written as a sequence of its fields)
Req_props_seq ==
    <<91, 34, 112, 114, 111, 112, 115, 34, 44, 110, 117, 108, 108, 44, 49, 53, 44, 91, 93, 93>>

\* {"id":3,"method":"event.status","params":[8]}   (routed)
Req_event_status ==
    <<123, 34, 105, 100, 34, 58, 51, 44, 34, 109, 101, 116, 104, 111, 100, 34, 58, 34, 101, 118, 101, 110, 116, 46, 115, 116, 97, 116, 117, 115, 34, 44, 34, 112, 97, 114, 97, 109, 115, 34, 58, 91, 56, 93, 125>>

\* {"id":4,"method":"event.low_power_back","params":null}   (routed)
Req_low_power_back ==
    <<123, 34, 105, 100, 34, 58, 52, 44, 34, 109, 101, 116, 104, 111, 100, 34, 58, 34, 101, 118, 101, 110, 116, 46, 108, 111, 119, 95, 112, 111, 119, 101, 114, 95, 98, 97, 99, 107, 34, 44, 34, 112, 97, 114, 97, 109, 115, 34, 58, 110, 117, 108, 108, 125>>

\* {"id":5,"method":"_sync.gen_presigned_url","params":{"suffix":"robomap"}}   (routed)
Req_gen_presigned_url ==
    <<123, 34, 105, 100, 34, 58, 53, 44, 34, 109, 101, 116, 104, 111, 100, 34, 58, 34, 95, 115, 121, 110, 99, 46, 103, 101, 110, 95, 112, 114, 101, 115, 105, 103, 110, 101, 100, 95, 117, 114, 108, 34, 44, 34, 112, 97, 114, 97, 109, 115, 34, 58, 123, 34, 115, 117, 102, 102, 105, 120, 34, 58, 34, 114, 111, 98, 111, 109, 97, 112, 34, 125, 125>>

\* {"id":6,"method":"_sync.batch_gen_room_up_url","params":[]}   (routed)
Req_batch_gen_room_up_url ==
    <<123, 34, 105, 100, 34, 58, 54, 44, 34, 109, 101, 116, 104, 111, 100, 34, 58, 34, 95, 115, 121, 110, 99, 46, 98, 97, 116, 99, 104, 95, 103, 101, 110, 95, 114, 111, 111, 109, 95, 117, 112, 95, 117, 114, 108, 34, 44, 34, 112, 97, 114, 97, 109, 115, 34, 58, 91, 93, 125>>

\* {"id":7,"method":"Props","params":[]}   (unknown method (case differs))
Req_Props_capital ==
    <<123, 34, 105, 100, 34, 58, 55, 44, 34, 109, 101, 116, 104, 111, 100, 34, 58, 34, 80, 114, 111, 112, 115, 34, 44, 34, 112, 97, 114, 97, 109, 115, 34, 58, 91, 93, 125>>

\* {"id":8,"method":"get_status","params":[]}   (unknown method)
Req_get_status ==
    <<123, 34, 105, 100, 34, 58, 56, 44, 34, 109, 101, 116, 104, 111, 100, 34, 58, 34, 103, 101, 116, 95, 115, 116, 97, 116, 117, 115, 34, 44, 34, 112, 97, 114, 97, 109, 115, 34, 58, 91, 93, 125>>

\* {"id":9,"method":"props"}   (params missing)
Req_props_no_params ==
    <<123, 34, 105, 100, 34, 58, 57, 44, 34, 109, 101, 116, 104, 111, 100, 34, 58, 34, 112, 114, 111, 112, 115, 34, 125>>

\* {"method":"props","params":[]}   (id missing)
Req_props_no_id ==
    <<123, 34, 109, 101, 116, 104, 111, 100, 34, 58, 34, 112, 114, 111, 112, 115, 34, 44, 34, 112, 97, 114, 97, 109, 115, 34, 58, 91, 93, 125>>

\* {"id":4294967296,"method":"props","params":[]}   (id above u32)
Req_props_id_overflow ==
    <<123, 34, 105, 100, 34, 58, 52, 50, 57, 52, 57, 54, 55, 50, 57, 54, 44, 34, 109, 101, 116, 104, 111, 100, 34, 58, 34, 112, 114, 111, 112, 115, 34, 44, 34, 112, 97, 114, 97, 109, 115, 34, 58, 91, 93, 125>>

\* {"id":-1,"method":"props","params":[]}   (id negative)
Req_props_id_negative ==
    <<123, 34, 105, 100, 34, 58, 45, 49, 44, 34, 109, 101, 116, 104, 111, 100, 34, 58, 34, 112, 114, 111, 112, 115, 34, 44, 34, 112, 97, 114, 97, 109, 115, 34, 58, 91, 93, 125>>

\* {"id":"12","method":"props","params":[]}   (id a string)
Req_props_id_string ==
    <<123, 34, 105, 100, 34, 58, 34, 49, 50, 34, 44, 34, 109, 101, 116, 104, 111, 100, 34, 58, 34, 112, 114, 111, 112, 115, 34, 44, 34, 112, 97, 114, 97, 109, 115, 34, 58, 91, 93, 125>>

\* {"id":1.5,"method":"props","params":[]}   (id a fraction)
Req_props_id_float ==
    <<123, 34, 105, 100, 34, 58, 49, 46, 53, 44, 34, 109, 101, 116, 104, 111, 100, 34, 58, 34, 112, 114, 111, 112, 115, 34, 44, 34, 112, 97, 114, 97, 109, 115, 34, 58, 91, 93, 125>>

\* {"id":16,"method":"props","partner_id":7,"params":[]}   (partner_id ill-typed)
Req_props_partner_number ==
    <<123, 34, 105, 100, 34, 58, 49, 54, 44, 34, 109, 101, 116, 104, 111, 100, 34, 58, 34, 112, 114, 111, 112, 115, 34, 44, 34, 112, 97, 114, 116, 110, 101, 114, 95, 105, 100, 34, 58, 55, 44, 34, 112, 97, 114, 97, 109, 115, 34, 58, 91, 93, 125>>

\* {"id":18,"id":18,"method":"props","params":[]}   (duplicate field)
Req_props_id_twice ==
    <<123, 34, 105, 100, 34, 58, 49, 56, 44, 34, 105, 100, 34, 58, 49, 56, 44, 34, 109, 101, 116, 104, 111, 100, 34, 58, 34, 112, 114, 111, 112, 115, 34, 44, 34, 112, 97, 114, 97, 109, 115, 34, 58, 91, 93, 125>>

\* {"id":17,"params":[]}   (method missing)
Req_no_method ==
    <<123, 34, 105, 100, 34, 58, 49, 55, 44, 34, 112, 97, 114, 97, 109, 115, 34, 58, 91, 93, 125>>

\* {"id":19,"method":5,"params":[]}   (method ill-typed)
Req_method_number ==
    <<123, 34, 105, 100, 34, 58, 49, 57, 44, 34, 109, 101, 116, 104, 111, 100, 34, 58, 53, 44, 34, 112, 97, 114, 97, 109, 115, 34, 58, 91, 93, 125>>

\* {"id":20,"method":"props","params":[]}}   (characters after the value)
Req_trailing ==
    <<123, 34, 105, 100, 34, 58, 50, 48, 44, 34, 109, 101, 116, 104, 111, 100, 34, 58, 34, 112, 114, 111, 112, 115, 34, 44, 34, 112, 97, 114, 97, 109, 115, 34, 58, 91, 93, 125, 125>>

\* {"id":21,"method":"_sync.batch_gen_room_up_url"}   (params missing)
Req_batch_no_params ==
    <<123, 34, 105, 100, 34, 58, 50, 49, 44, 34, 109, 101, 116, 104, 111, 100, 34, 58, 34, 95, 115, 121, 110, 99, 46, 98, 97, 116, 99, 104, 95, 103, 101, 110, 95, 114, 111, 111, 109, 95, 117, 112, 95, 117, 114, 108, 34, 125>>

\* hello   (not JSON)
Req_not_json ==
    <<104, 101, 108, 108, 111>>

\* 42   (JSON, but no object)
Req_scalar ==
    <<52, 50>>

Plaintexts ==
    { Req_otc_info,
      Req_props,
      Req_props_extra,
      Req_props_seq,
      Req_event_status,
      Req_low_power_back,
      Req_gen_presigned_url,
      Req_batch_gen_room_up_url,
      Req_Props_capital,
      Req_get_status,
      Req_props_no_params,
      Req_props_no_id,
      Req_props_id_overflow,
      Req_props_id_negative,
      Req_props_id_string,
      Req_props_id_float,
      Req_props_partner_number,
      Req_props_id_twice,
      Req_no_method,
      Req_method_number,
      Req_trailing,
      Req_batch_no_params,
      Req_not_json,
      Req_scalar }


(***************************************************************************)
(* The environment: cloud keys, devices, the clock, datagrams on the wire. *)
(***************************************************************************)
Key1 == <<107, 101, 121, 49>>   \* key1
Key2 == <<107, 101, 121, 50>>   \* key2
Keys == { Key1, Key2 }

\* device identifiers (header bytes 8-11): 1 and 0x12345678
DeviceIds == { U32(1), <<4660, 22136>> }

\* stamps (header bytes 12-15): 0 and 0x01000001
Stamps == { U32Zero, <<256, 1>> }

\* seconds since the epoch (u64): 1700000000 and 2^32 + 5
Clocks == { <<0, 0, 25939, 61696>>, <<0, 1, 0, 5>> }

\* source addresses of datagrams
Addrs == { "10.0.0.2:54321", "10.0.0.3:40000" }

\* a datagram of len bytes that no codec decodes: the head of a frame, then
\* fill bytes (cut short when len is below the header's length)
RawDatagram(len, device_id, stamp, fill) ==
    LET full == FrameHead(0, device_id, stamp) \o Repeat(fill, 16)
                    \o Repeat(fill, IF len > HeaderLen THEN len - HeaderLen ELSE 0)
    IN  SubSeq(full, 1, len)

RawLengths == { 0, 15, HeaderLen - 1, HeaderLen, HeaderLen + 1, BufSize, BufSize + 1 }

RawDatagrams ==
    { RawDatagram(len, U32(1), st, 255) : len \in RawLengths, st \in Stamps }

\* every plaintext from one registered device, and three of them from every
\* device, with every key and stamp
DeviceFrames ==
    { Frame(Key1, U32(1), <<256, 1>>, p) : p \in Plaintexts }
        \cup { Frame(k, d, st, p) : k \in Keys, d \in DeviceIds, st \in Stamps,
                                  p \in { Req_props, Req_get_status, Req_not_json } }

Datagrams == RawDatagrams \cup DeviceFrames

(***************************************************************************)
(* Command line (src/main.rs, lines 45-70): getopts with the one required  *)
(* option -k/--key, which takes an argument.                               *)
(***************************************************************************)
Dash == 45
OptShortK == <<45, 107>>              \* -k
OptLongKey == <<45, 45, 107, 101, 121>>   \* --key
OptLongKeyEq == <<45, 45, 107, 101, 121, 61>>   \* --key=

HasPrefix(s, pre) == Len(s) >= Len(pre) /\ SubSeq(s, 1, Len(pre)) = pre

RECURSIVE getopts_parse(_, _, _)
\* Options::parse(&args[1..]): the values given for k, or Err.  i is the next
\* argument's index, vals the values found so far.
getopts_parse(args, i, vals) ==
    IF i > Len(args) THEN
        \* Occur::Req: exactly once
        IF Len(vals) = 1 THEN Ok(vals) ELSE Err
    ELSE LET a == args[i]
         IN  IF a = <<Dash, Dash>> THEN getopts_parse(args, Len(args) + 1, vals)
             ELSE IF a = OptShortK \/ a = OptLongKey THEN
                 \* HasArg::Yes: the next argument is the value
                 IF i = Len(args) THEN Err
                 ELSE getopts_parse(args, i + 2, Append(vals, args[i + 1]))
             ELSE IF HasPrefix(a, OptLongKeyEq) THEN
                 getopts_parse(args, i + 1, Append(vals, SliceFrom(a, Len(OptLongKeyEq))))
             ELSE IF HasPrefix(a, <<Dash, Dash>>) THEN Err
             ELSE IF HasPrefix(a, OptShortK) THEN
                 getopts_parse(args, i + 1, Append(vals, SliceFrom(a, Len(OptShortK))))
             ELSE IF HasPrefix(a, <<Dash>>) /\ Len(a) > 1 THEN Err
             ELSE getopts_parse(args, i + 1, vals)

\* matches.opt_str("k")
opt_str(matches) == IF matches.val = <<>> THEN None ELSE Some(matches.val[1])

\* command lines (without the program's name)
Argvs ==
    { <<>>,
      <<OptShortK, Key1>>,
      <<OptShortK \o Key2>>,
      <<OptLongKeyEq \o Key1>>,
      <<OptLongKey, Key2, <<102>> >>,
      <<OptShortK>>,
      <<<<Dash, 120>>, OptShortK, Key1>>,
      <<OptShortK, Key1, OptShortK, Key2>>,
      <<<<102>>>> }

(***************************************************************************)
(* State.                                                                  *)
(***************************************************************************)
VARIABLES
    pc,          \* where main is: "args", "bind", "recv", "slice", "decode",
                 \* "parse", "route", "reply", "loop_end", "exited"
    cause,       \* why the process ended: "none" while it runs
    argv,        \* env::args() after the program's name
    usage,       \* print_usage was called
    bound,       \* the UDP socket is bound
    cloud_key,   \* Option<String>
    wire,        \* the datagram as the sender sent it
    buf,         \* let mut buf = [0; 1024], then let buf = &buf[..amt]
    amt,         \* bytes received
    src,         \* the sender's address
    stamp,       \* u32
    device_id,   \* u32
    response,    \* Option<String>: the decoded plaintext
    msg,         \* Option<MessagePayload>
    reply_json,  \* Option<ResponsePayload>
    n_recv,      \* datagrams received so far
    iter,        \* the number of the datagram the locals belong to
    sent,        \* packets sent since the last receive: [to, bytes]
    log,         \* the socket's history: [ev, n, addr]
    calls        \* functions applied on their own, outside main: [fn, ..., ret]

vars ==
    << pc, cause, argv, usage, bound, cloud_key, wire, buf, amt, src, stamp,
       device_id, response, msg, reply_json, n_recv, iter, sent, log, calls >>

startup == << argv, usage, bound, cloud_key >>
locals == << wire, buf, amt, src, stamp, device_id, response, msg, reply_json, iter >>

NoAddr == ""

Init ==
    /\ pc = "args"
    /\ cause = "none"
    /\ argv \in Argvs
    /\ usage = FALSE
    /\ bound = FALSE
    /\ cloud_key = None
    /\ wire = <<>>
    /\ buf = <<>>
    /\ amt = 0
    /\ src = NoAddr
    /\ stamp = U32Zero
    /\ device_id = U32Zero
    /\ response = None
    /\ msg = None
    /\ reply_json = None
    /\ n_recv = 0
    /\ iter = 0
    /\ sent = <<>>
    /\ log = <<>>
    /\ calls = <<>>

\* variant: the error is noted and the loop goes on
Exit_swallowed(why) ==
    /\ pc' = "loop_end"
    /\ cause' = why

\* the process ends: std::process::exit, `?` out of main, or a panic
Exit(why) ==
    /\ pc' = "exited"
    /\ cause' = why

\* variant: every packet is sent twice
Sent_twice(pkt) ==
    /\ sent' = sent \o << [to |-> src, bytes |-> pkt], [to |-> src, bytes |-> pkt] >>
    /\ log' = log \o << [ev |-> "send", n |-> iter, addr |-> src],
                        [ev |-> "send", n |-> iter, addr |-> src] >>

\* variant: the packet goes to the sender of the first datagram
Sent_to_first(pkt) ==
    /\ sent' = Append(sent, [to |-> log[1].addr, bytes |-> pkt])
    /\ log' = Append(log, [ev |-> "send", n |-> iter, addr |-> log[1].addr])

\* socket.send_to(pkt, &src) returned Ok
Sent(pkt) ==
    /\ sent' = Append(sent, [to |-> src, bytes |-> pkt])
    /\ log' = Append(log, [ev |-> "send", n |-> iter, addr |-> src])

Min(a, b) == IF a < b THEN a ELSE b

\* the status the process ends with: std::process::exit(1) after the usage
\* text, 1 for an Err returned from main, 101 for a panic
exit_status(why) ==
    CASE why = "usage" -> 1
      [] why \in { "recv", "send", "serialize" } -> 1
      [] why \in { "bind", "slice" } -> 101
      [] OTHER -> 0

\* variant of ParseArgs: the socket is bound before the command line is read
ParseArgs_bind_first ==
    /\ pc = "args"
    /\ bound' = TRUE
    /\ LET matches == getopts_parse(argv, 1, <<>>)
       IN  IF ~matches.ok \/ opt_str(matches) = None
           THEN /\ usage' = TRUE
                /\ Exit("usage")
                /\ UNCHANGED cloud_key
           ELSE /\ cloud_key' = opt_str(matches)
                /\ pc' = "bind"
                /\ UNCHANGED << usage, cause >>
    /\ UNCHANGED << calls, argv, locals, n_recv, sent, log >>

(***************************************************************************)
(* main, lines 45-70: the command line.                                    *)
(***************************************************************************)
ParseArgs ==
    /\ pc = "args"
    /\ LET matches == getopts_parse(argv, 1, <<>>)
       IN  IF ~matches.ok \/ opt_str(matches) = None
           THEN /\ usage' = TRUE
                /\ Exit("usage")
                /\ UNCHANGED cloud_key
           ELSE /\ cloud_key' = opt_str(matches)
                /\ pc' = "bind"
                /\ UNCHANGED << usage, cause >>
    /\ UNCHANGED << calls, argv, bound, locals, n_recv, sent, log >>

(***************************************************************************)
(* main, lines 72-73: UdpSocket::bind(..).expect(..)                       *)
(***************************************************************************)
Bind ==
    /\ pc = "bind"
    /\ \E ok \in BOOLEAN :
         IF ok
         THEN /\ bound' = TRUE
              /\ pc' = "recv"
              /\ UNCHANGED cause
         ELSE /\ Exit("bind")
              /\ UNCHANGED bound
    /\ UNCHANGED << calls, argv, usage, cloud_key, locals, n_recv, sent, log >>

\* variant of RecvFrom: the next datagram is also accepted (and set aside)
\* while a reply is still to be sent
RecvFrom_early ==
    /\ pc \in { "recv", "reply" }
    /\ n_recv < MaxDatagrams
    /\ \E d \in Datagrams, a \in Addrs :
         /\ n_recv' = n_recv + 1
         /\ log' = Append(log, [ev |-> "recv", n |-> n_recv + 1, addr |-> a])
         /\ IF pc = "recv"
            THEN /\ wire' = d
                 /\ amt' = Min(Len(d), BufSize)
                 /\ buf' = [i \in 1..BufSize |-> IF i <= Len(d) THEN d[i] ELSE 0]
                 /\ src' = a
                 /\ iter' = n_recv + 1
                 /\ sent' = <<>>
                 /\ pc' = "slice"
            ELSE UNCHANGED << wire, amt, buf, src, iter, sent, pc >>
    /\ UNCHANGED << calls, startup, cause, stamp, device_id, response, msg, reply_json >>

(***************************************************************************)
(* main, lines 76-78: socket.recv_from(&mut buf)?  A datagram longer than  *)
(* the buffer is cut to the buffer's size.                                 *)
(***************************************************************************)
RecvFrom ==
    /\ pc = "recv"
    /\ n_recv < MaxDatagrams
    /\ \E d \in Datagrams, a \in Addrs, ok \in BOOLEAN :
         IF ok
         THEN /\ wire' = d
              /\ amt' = Min(Len(d), BufSize)
              /\ buf' = [i \in 1..BufSize |-> IF i <= Len(d) THEN d[i] ELSE 0]
              /\ src' = a
              /\ n_recv' = n_recv + 1
              /\ iter' = n_recv + 1
              /\ sent' = <<>>
              /\ log' = Append(log, [ev |-> "recv", n |-> n_recv + 1, addr |-> a])
              /\ pc' = "slice"
              /\ UNCHANGED cause
         ELSE /\ Exit("recv")
              /\ UNCHANGED << wire, amt, buf, src, n_recv, iter, sent, log >>
    /\ UNCHANGED << calls, startup, stamp, device_id, response, msg, reply_json >>

(***************************************************************************)
(* main, lines 83-88: the slices of the buffer and the header's fields.    *)
(* &buf[..32] panics when fewer than 32 bytes were received.               *)
(***************************************************************************)
Header(b) == SliceTo(b, HeaderLen)
EncryptedBody(b) == SliceFrom(b, HeaderLen)
HeaderStamp(header) == get_u32(SliceFrom(header, 12))
\* variant: the identifier of the one device the server was written for
HeaderDeviceId_constant(header) == U32(1)

HeaderDeviceId(header) == get_u32(SliceFrom(header, 8))

SliceHeader ==
    /\ pc = "slice"
    /\ buf' = SliceTo(buf, amt)
    /\ IF amt < HeaderLen
       THEN /\ Exit("slice")
            /\ UNCHANGED << stamp, device_id >>
       ELSE /\ stamp' = HeaderStamp(Header(buf'))
            /\ device_id' = HeaderDeviceId(Header(buf'))
            /\ pc' = "decode"
            /\ UNCHANGED cause
    /\ UNCHANGED << calls, startup, wire, amt, src, response, msg, reply_json,
                    n_recv, iter, sent, log >>

(***************************************************************************)
(* main, lines 80 and 89-100: decode; on a miss, the handshake or the echo.*)
(***************************************************************************)
\* variant: the received bytes are echoed whatever the stamp is
MissReply_always_echo(st, b, now) == b

\* the packet sent on a decode miss (lines 92-97)
MissReply(st, b, now) ==
    IF st = U32Zero THEN create_timesync_packet(now) ELSE b

\* variant: a session per server; frames are decoded only once some packet
\* has been sent, until then every datagram counts as a decode miss
Decode_after_first_contact ==
    /\ pc = "decode"
    /\ LET c == UDPCodec_new(cloud_key[1])
           r == IF \E j \in 1..Len(log) : log[j].ev = "send"
                THEN decode_response(c, Header(buf), EncryptedBody(buf))
                ELSE None
       IN  IF r = None
           THEN /\ \E now \in Clocks, ok \in BOOLEAN :
                     IF ok
                     THEN /\ Sent(MissReply(stamp, buf, now))
                          /\ pc' = "loop_end"
                          /\ UNCHANGED cause
                     ELSE /\ Exit("send")
                          /\ UNCHANGED << sent, log >>
                /\ UNCHANGED response
           ELSE /\ response' = r
                /\ pc' = "parse"
                /\ UNCHANGED << cause, sent, log >>
    /\ UNCHANGED << calls, startup, wire, buf, amt, src, stamp, device_id, msg,
                    reply_json, n_recv, iter >>

Decode ==
    /\ pc = "decode"
    /\ LET c == UDPCodec_new(cloud_key[1])
           r == decode_response(c, Header(buf), EncryptedBody(buf))
       IN  IF r = None
           THEN /\ \E now \in Clocks, ok \in BOOLEAN :
                     IF ok
                     THEN /\ Sent(MissReply(stamp, buf, now))
                          /\ pc' = "loop_end"
                          /\ UNCHANGED cause
                     ELSE /\ Exit("send")
                          /\ UNCHANGED << sent, log >>
                /\ UNCHANGED response
           ELSE /\ response' = r
                /\ pc' = "parse"
                /\ UNCHANGED << cause, sent, log >>
    /\ UNCHANGED << calls, startup, wire, buf, amt, src, stamp, device_id, msg,
                    reply_json, n_recv, iter >>

\* variant of Parse: the result is unwrapped, an error ends the process
Parse_unwrap ==
    /\ pc = "parse"
    /\ LET r == from_str(response[1])
       IN  IF r.ok
           THEN /\ msg' = Some(r.val)
                /\ pc' = "route"
                /\ UNCHANGED cause
           ELSE /\ pc' = "exited"
                /\ cause' = "parse"
                /\ UNCHANGED msg
    /\ UNCHANGED << calls, startup, wire, buf, amt, src, stamp, device_id,
                    response, reply_json, n_recv, iter, sent, log >>

(***************************************************************************)
(* main, lines 102-105: serde_json::from_str, `continue` on an error.      *)
(***************************************************************************)
Parse ==
    /\ pc = "parse"
    /\ LET r == from_str(response[1])
       IN  IF r.ok
           THEN /\ msg' = Some(r.val)
                /\ pc' = "route"
           ELSE /\ pc' = "loop_end"
                /\ UNCHANGED msg
    /\ UNCHANGED << calls, startup, cause, wire, buf, amt, src, stamp, device_id,
                    response, reply_json, n_recv, iter, sent, log >>

(***************************************************************************)
(* main, lines 106-154: the match on the method.  serde_json::to_value     *)
(* returns a Result, and `?` returns its error from main.                  *)
(***************************************************************************)
Route ==
    /\ pc = "route"
    /\ LET response_function == msg[1].method
       IN  \E now \in Clocks, value_ok \in BOOLEAN :
             LET result == RouteResult(response_function, now)
             IN  IF result = None
                 THEN /\ pc' = "loop_end"
                      /\ UNCHANGED << cause, reply_json >>
                 ELSE IF response_function \in OkMethods /\ ~value_ok
                 THEN /\ Exit("serialize")
                      /\ UNCHANGED reply_json
                 ELSE /\ reply_json' = Some(ResponsePayload_new(msg[1].id, result[1]))
                      /\ pc' = "reply"
                      /\ UNCHANGED cause
    /\ UNCHANGED << calls, startup, wire, buf, amt, src, stamp, device_id, response,
                    msg, n_recv, iter, sent, log >>

(***************************************************************************)
(* main, lines 155-156: serialize, encode, send.  serde_json::to_vec and   *)
(* send_to return Results, and `?` returns their errors from main.         *)
(***************************************************************************)
Reply ==
    /\ pc = "reply"
    /\ \E vec_ok \in BOOLEAN, ok \in BOOLEAN :
         IF ~vec_ok
         THEN /\ Exit("serialize")
              /\ UNCHANGED << sent, log >>
         ELSE LET c == UDPCodec_new(cloud_key[1])
                  reply == encode_response(c, to_vec(reply_json[1]), device_id)
              IN  IF ok
                  THEN /\ Sent(reply)
                       /\ pc' = "loop_end"
                       /\ UNCHANGED cause
                  ELSE /\ Exit("send")
                       /\ UNCHANGED << sent, log >>
    /\ UNCHANGED << calls, startup, wire, buf, amt, src, stamp, device_id, response,
                    msg, reply_json, n_recv, iter >>

(***************************************************************************)
(* main, line 75: the loop's back edge (`continue`, or the body's end).    *)
(* The iteration's locals go out of scope.                                 *)
(***************************************************************************)
Continue ==
    /\ pc = "loop_end"
    /\ pc' = "recv"
    /\ wire' = <<>>
    /\ buf' = <<>>
    /\ amt' = 0
    /\ src' = NoAddr
    /\ stamp' = U32Zero
    /\ device_id' = U32Zero
    /\ response' = None
    /\ msg' = None
    /\ reply_json' = None
    /\ iter' = 0
    /\ UNCHANGED << calls, startup, cause, n_recv, sent, log >>

Next ==
    \/ ParseArgs
    \/ Bind
    \/ RecvFrom
    \/ SliceHeader
    \/ Decode
    \/ Parse
    \/ Route
    \/ Reply
    \/ Continue

Spec == Init /\ [][Next]_vars

(***************************************************************************)
(* The functions of the program applied on their own, call after call:     *)
(* create_timesync_packet with the clock's reading, and the codec as main  *)
(* uses it (encode_response on a payload and a device identifier; then     *)
(* decode_response on the frame's first 32 bytes and the rest).            *)
(***************************************************************************)
\* calls made before the model stops making new ones
MaxCalls == 2

\* readings of the clock (u64 seconds): 0, 1, 1700000000, 2^31, 2^32 - 1,
\* 2^32, 2^32 + 5, 2^48 + 258, 2^64 - 1
TimesyncClocks ==
    Clocks \cup { <<0, 0, 0, 0>>, <<0, 0, 0, 1>>, <<0, 0, 32768, 0>>,
                  <<0, 0, 65535, 65535>>, <<0, 1, 0, 0>>, <<1, 0, 0, 258>>,
                  <<65535, 65535, 65535, 65535>> }

main_vars ==
    << pc, cause, argv, usage, bound, cloud_key, wire, buf, amt, src, stamp,
       device_id, response, msg, reply_json, n_recv, iter, sent, log >>

InitCalls ==
    /\ Init
    /\ argv = <<OptShortK, Key1>>

CallTimesync ==
    /\ Len(calls) < MaxCalls
    /\ \E now \in TimesyncClocks :
         calls' = Append(calls, [fn |-> "create_timesync_packet", now |-> now,
                                 ret |-> create_timesync_packet(now)])
    /\ UNCHANGED main_vars

\* payloads that are text: ASCII, and characters of two, three and four bytes
TextPayloads ==
    { <<123, 34, 105, 100, 34, 58, 49, 44, 34, 114, 101, 115, 117, 108, 116, 34, 58, 34, 111, 107, 34, 125>>,   \* {"id":1,"result":"ok"}
      <<97>>,                  \* a
      <<99, 195, 169>>,        \* c, e with acute accent
      <<226, 130, 172, 240, 159, 152, 128>> }   \* euro sign, U+1F600

\* payloads that are no text: a lone 0xFF, a lead byte without its
\* continuation, an overlong NUL
BytePayloads == { <<255>>, <<97, 195>>, <<192, 128>> }

\* (the empty payload is left out: whether its frame has a body, which
\* decode_response requires, depends on the cipher's padding)
CodecPayloads == TextPayloads \cup BytePayloads

\* main, line 155: c.encode_response(&payload, device_id)
CallEncode ==
    /\ Len(calls) < MaxCalls
    /\ \E key \in Keys, plain \in CodecPayloads, id \in DeviceIds :
         calls' = Append(calls, [fn |-> "encode_response", key |-> key,
                                 plain |-> plain, id |-> id,
                                 ret |-> encode_response(UDPCodec_new(key), plain, id)])
    /\ UNCHANGED main_vars

\* main, lines 85-89: c.decode_response(&buf[..32], &buf[32..]) on the frame
\* the last call encoded
CallDecode ==
    /\ Len(calls) < MaxCalls
    /\ calls # <<>>
    /\ calls[Len(calls)].fn = "encode_response"
    /\ \E key \in Keys :
         LET frame == calls[Len(calls)].ret
         IN  calls' = Append(calls, [fn |-> "decode_response", key |-> key,
                                     frame |-> frame,
                                     ret |-> decode_response(UDPCodec_new(key),
                                                 Header(frame), EncryptedBody(frame))])
    /\ UNCHANGED main_vars

NextCalls ==
    \/ CallTimesync
    \/ CallEncode
    \/ CallDecode

SpecCalls == InitCalls /\ [][NextCalls]_vars

(***************************************************************************)
(* Properties.                                                             *)
(***************************************************************************)
\* the loop is past the slicing of a datagram of at least a header's length
InIteration == iter > 0 /\ pc # "slice" /\ amt >= HeaderLen

\* bytes 12-15 of the datagram as it was sent
WireStamp == SubSeq(wire, 13, 16)

\* what the codec makes of the received bytes
Decoded ==
    decode_response(UDPCodec_new(cloud_key[1]),
                    SubSeq(buf, 1, HeaderLen), SubSeq(buf, HeaderLen + 1, Len(buf)))

\* the request the decoded plaintext parses to (a Result)
Request == from_str(Decoded[1])

\* the plaintext a device with the cloud key reads out of a packet (an Option)
PlainOf(pkt) ==
    decode_response(UDPCodec_new(cloud_key[1]),
                    SubSeq(pkt, 1, HeaderLen), SubSeq(pkt, HeaderLen + 1, Len(pkt)))

\* a 32-byte time-sync packet, whatever its bytes 12-15 are
IsTimesync(pkt) ==
    /\ Len(pkt) = 32
    /\ SubSeq(pkt, 1, 12) = <<33, 49, 0, 32, 255, 255, 255, 255, 255, 255, 255, 255>>
    /\ \A i \in 17..32 : pkt[i] = 255

\* C1: a datagram with stamp 0 that the codec does not decode is answered
\* with one packet, and that packet is the 32-byte time-sync packet (built from
\* the clock, not from the received bytes).
C1_HandshakeOnZeroStampMiss ==
    (InIteration /\ WireStamp = <<0, 0, 0, 0>> /\ Decoded = None) =>
        /\ Len(sent) <= 1
        /\ \A i \in 1..Len(sent) :
               /\ IsTimesync(sent[i].bytes)
               /\ \E now \in Clocks : SubSeq(sent[i].bytes, 13, 16) = put_u32(AsU32(now))
        /\ pc = "loop_end" => Len(sent) = 1

\* a frame with a body, stamp 0 and the wrong key has been answered
C1_Witness ==
    /\ pc = "loop_end"
    /\ InIteration
    /\ WireStamp = <<0, 0, 0, 0>>
    /\ Len(wire) > HeaderLen
    /\ Decoded = None
    /\ Len(sent) = 1

\* C2: a datagram of any length with a nonzero stamp that the codec does not
\* decode is answered with exactly the datagram that was sent.
C2_EchoIsOriginalDatagram ==
    (pc = "loop_end" /\ InIteration /\ WireStamp # <<0, 0, 0, 0>> /\ Decoded = None) =>
        /\ Len(sent) = 1
        /\ sent[1].bytes = wire

\* C3: the id of every routed reply is the id of the request it answers.
C3_ReplyIdIsRequestId ==
    (InIteration /\ sent # <<>> /\ Decoded # None) =>
        LET req == Request
        IN  \A i \in 1..Len(sent) :
              LET out == PlainOf(sent[i].bytes)
              IN  /\ out # None
                  /\ LET v == ReadJson(out[1])
                     IN  /\ v.ok
                         /\ v.v.t = "obj"
                         /\ LET ids == FieldValues(v.v.m, K_id)
                            IN  /\ Len(ids) = 1
                                /\ IsU32(ids[1])
                                /\ req.ok
                                /\ ToU32(ids[1]) = req.val.id

\* a reply to a request with the largest id has been sent
C3_Witness ==
    /\ pc = "loop_end"
    /\ InIteration
    /\ Decoded # None
    /\ Len(sent) = 1
    /\ Request.ok
    /\ Request.val.id = <<65535, 65535>>

\* the decoded plaintext is a JSON object with a member "method" of value m
PlainMethodIs(m) ==
    LET v == ReadJson(Decoded[1])
    IN  /\ v.ok
        /\ v.v.t = "obj"
        /\ \E i \in 1..Len(v.v.m) :
             /\ v.v.m[i].k = K_method
             /\ v.v.m[i].v.t = "str"
             /\ v.v.m[i].v.s = m

\* {"id":<id>,"result":"ok"}
OkResponseText(id) ==
    <<123, 34, 105, 100, 34, 58>> \o DecLimbs(id)
        \o <<44, 34, 114, 101, 115, 117, 108, 116, 34, 58, 34, 111, 107, 34, 125>>

\* a text of the form {"id":<number>,"result":"ok"}
IsOkResponse(text) ==
    LET v == ReadJson(text)
    IN  /\ v.ok
        /\ v.v.t = "obj"
        /\ Len(v.v.m) = 2
        /\ v.v.m[1].k = K_id
        /\ v.v.m[1].v.t = "num"
        /\ v.v.m[2].k = K_result
        /\ v.v.m[2].v.t = "str"
        /\ v.v.m[2].v.s = S_ok

\* C4 as claimed: every decodable frame whose plaintext has the method "props"
\* is answered with {"id":<id>,"result":"ok"}, whatever else the plaintext holds
\* or lacks.
C4_PropsAnsweredWhateverTheFields ==
    (pc = "loop_end" /\ InIteration /\ Decoded # None /\ PlainMethodIs(M_props)) =>
        /\ Len(sent) = 1
        /\ PlainOf(sent[1].bytes) # None
        /\ IsOkResponse(PlainOf(sent[1].bytes)[1])

\* C4 as amended: a decodable frame whose plaintext parses as a Request Message
\* with the method "props" is answered with one packet whose plaintext is
\* {"id":<the request's id>,"result":"ok"}; no packet goes out only when the
\* process ends on a serialization or send failure.
C4_PropsAnswered ==
    InIteration =>
        LET plain == Decoded
            req == from_str(plain[1])
        IN  (plain # None /\ req.ok /\ req.val.method = M_props) =>
                /\ Len(sent) <= 1
                /\ \A i \in 1..Len(sent) :
                       PlainOf(sent[i].bytes) = Some(OkResponseText(req.val.id))
                /\ pc = "loop_end" => Len(sent) = 1
                /\ (pc = "exited" /\ sent = <<>>) => cause \in { "serialize", "send" }

\* a props request with a partner identifier has been answered
C4_Witness ==
    /\ pc = "loop_end"
    /\ InIteration
    /\ Decoded # None
    /\ Request.ok
    /\ Request.val.method = M_props
    /\ Request.val.partner_id # None
    /\ Len(sent) = 1

\* the six routed method names
RoutedMethods ==
    { M_otc_info, M_props, M_event_status, M_event_low_power_back,
      M_sync_gen_presigned_url, M_sync_batch_gen_room_up_url }

\* the datagram in hand decodes and parses, and its method is not routed
UnknownMethod ==
    /\ InIteration
    /\ LET plain == Decoded
           req == from_str(plain[1])
       IN  plain # None /\ req.ok /\ req.val.method \notin RoutedMethods

\* the step taken sends nothing, does not end the process, and leads from the
\* point `at` to the loop's end and from there to the next receive
SilentStepFrom(at) ==
    /\ sent' = <<>>
    /\ log' = log
    /\ cause' = "none"
    /\ pc' # "exited"
    /\ pc = at => pc' = "loop_end"
    /\ pc = "loop_end" => pc' = "recv"

\* C5: a decodable frame that parses as a Request Message with a method that is
\* not one of the six routed names gets no packet, and the loop goes on to the
\* next receive.
C5_UnknownMethodNoReply == [][UnknownMethod => SilentStepFrom("route")]_vars

\* a request with the method "Props" has been dropped
C5_Witness ==
    /\ pc = "loop_end"
    /\ UnknownMethod
    /\ Request.val.method = <<80, 114, 111, 112, 115>>
    /\ sent = <<>>

\* C6: no datagram, whatever its length and content, stops the server: the
\* process ends only on a socket failure or, before the loop, at startup.
C6_OnlyTransportFailuresStop ==
    pc = "exited" => cause \in { "usage", "bind", "recv", "send" }

\* the datagram in hand decodes, and its plaintext is no Request Message
ParseFails ==
    /\ InIteration
    /\ LET plain == Decoded
       IN  plain # None /\ ~from_str(plain[1]).ok

\* C7: when the decoded plaintext does not parse as a Request Message, no packet
\* is sent, the process keeps running, and the loop goes on to the next receive.
C7_ParseFailureNoReply == [][ParseFails => SilentStepFrom("parse")]_vars

\* a props request without params has been dropped
C7_Witness ==
    /\ pc = "loop_end"
    /\ ParseFails
    /\ Decoded = Some(Req_props_no_params)
    /\ sent = <<>>

\* C8: replies go out in the order of their requests: every packet is sent
\* after its own datagram was received and before the next one is, one packet
\* per datagram at most.
C8_RepliesInOrder ==
    /\ \A i, j \in 1..Len(log) : i < j => log[i].n <= log[j].n
    /\ \A j \in 1..Len(log) :
         log[j].ev = "send" =>
             \E i \in 1..(j - 1) : log[i].ev = "recv" /\ log[i].n = log[j].n
    /\ \A i, j \in 1..Len(log) :
         (i < j /\ log[i].ev = "send" /\ log[j].ev = "send") => log[i].n < log[j].n
    /\ pc = "recv" => reply_json = None

\* two datagrams have been received and each has been answered
C8_Witness ==
    /\ Len(log) = 4
    /\ log[1].ev = "recv"
    /\ log[2].ev = "send"
    /\ log[3].ev = "recv"
    /\ log[4].ev = "send"

\* C9: a failure to serialize a response costs that response only: the server
\* does not end on it.
C9_SerializeFailureKeepsServing == ~(pc = "exited" /\ cause = "serialize")

\* C10: a failed socket receive or send ends the process: nothing is received
\* or sent afterwards, and the failed operation left nothing behind.
C10_SocketFailureEndsProcess ==
    [][ /\ cause' \in { "recv", "send" } => pc' = "exited"
        /\ cause \in { "recv", "send" } => UNCHANGED << pc, cause, n_recv, sent, log >>
        /\ (cause = "none" /\ cause' \in { "recv", "send" }) =>
               UNCHANGED << n_recv, sent, log >> ]_vars

\* the send of a routed reply has failed, and the process has ended
C10_Witness ==
    /\ pc = "exited"
    /\ cause = "send"
    /\ reply_json # None
    /\ sent = <<>>

\* the command line gives no usable cloud key: it does not parse, or -k is absent
NoCloudKey ==
    LET matches == getopts_parse(argv, 1, <<>>)
    IN  ~matches.ok \/ opt_str(matches) = None

\* main is in its receive loop
InLoop == pc \in { "recv", "slice", "decode", "parse", "route", "reply", "loop_end" }

\* C11: without a usable cloud key the program prints usage and exits with a
\* nonzero status, and the socket is never bound; the socket is bound, and the
\* loop entered, only with a cloud key in hand.
C11_UsageExitBeforeBind ==
    /\ NoCloudKey => ~bound /\ ~InLoop /\ n_recv = 0 /\ log = <<>>
    /\ (NoCloudKey /\ pc # "args") =>
           /\ usage
           /\ pc = "exited"
           /\ cause = "usage"
           /\ exit_status(cause) # 0
    /\ usage => NoCloudKey /\ pc = "exited"
    /\ bound => cloud_key # None
    /\ InLoop => bound /\ cloud_key # None

\* the key option came without its value: usage was printed, the process ended
C11_Witness ==
    /\ argv = <<OptShortK>>
    /\ pc = "exited"
    /\ usage
    /\ ~bound

\* the calls of create_timesync_packet made so far
TimesyncCalls == { i \in 1..Len(calls) : calls[i].fn = "create_timesync_packet" }

\* C12: every packet create_timesync_packet returns has 32 bytes, 0x21 0x31 in
\* bytes 0-1, 0x00 0x20 in bytes 2-3, 0xFF in bytes 4-11 and 16-31; two packets
\* differ in bytes 12-15 at most.
C12_TimesyncPacketLayout ==
    /\ \A i \in TimesyncCalls :
         LET packet == calls[i].ret
         IN  /\ Len(packet) = 32
             /\ packet[1] = 33 /\ packet[2] = 49
             /\ packet[3] = 0 /\ packet[4] = 32
             /\ \A k \in 5..12 : packet[k] = 255
             /\ \A k \in 17..32 : packet[k] = 255
    /\ \A i, j \in TimesyncCalls :
         /\ Len(calls[i].ret) = Len(calls[j].ret)
         /\ \A k \in 1..Len(calls[i].ret) :
                calls[i].ret[k] # calls[j].ret[k] => k \in 13..16

\* two calls at different times have returned packets that differ
C12_Witness ==
    /\ TimesyncCalls = { 1, 2 }
    /\ calls[1].now # calls[2].now
    /\ calls[1].ret # calls[2].ret

\* C13: bytes 12-15 of the packet are the big-endian bytes of the clock's
\* seconds modulo 2^32: of the two low 16-bit limbs of the u64 reading.
C13_TimesyncEpochTruncated ==
    \A i \in TimesyncCalls :
        LET packet == calls[i].ret
            now == calls[i].now
        IN  /\ Len(packet) >= 16
            /\ \A k \in 13..16 : packet[k] \in 0..255
            /\ packet[13] * 256 + packet[14] = now[3]
            /\ packet[15] * 256 + packet[16] = now[4]

\* the clock read 2^48 + 258, above 32 bits: the packet carries 258
C13_Witness ==
    \E i \in TimesyncCalls :
        /\ calls[i].now = <<1, 0, 0, 258>>
        /\ SubSeq(calls[i].ret, 13, 16) = <<0, 0, 1, 2>>

\* bytes 8-11 of the datagram as it was sent, read big-endian
WireDeviceId == << wire[9] * 256 + wire[10], wire[11] * 256 + wire[12] >>

\* C14: every routed reply is the encoding of its plaintext with the device
\* identifier in bytes 8-11 of the datagram it answers.
C14_ReplyCarriesInboundDeviceId ==
    (InIteration /\ Decoded # None) =>
        /\ device_id = WireDeviceId
        /\ \A i \in 1..Len(sent) :
               LET plain == PlainOf(sent[i].bytes)
               IN  /\ plain # None
                   /\ sent[i].bytes =
                          encode_response(UDPCodec_new(cloud_key[1]), plain[1], WireDeviceId)

\* the second datagram came from device 0x12345678 and has been answered
C14_Witness ==
    /\ pc = "loop_end"
    /\ iter = 2
    /\ InIteration
    /\ Decoded # None
    /\ Len(sent) = 1
    /\ WireDeviceId = <<4660, 22136>>
    /\ SubSeq(sent[1].bytes, 9, 12) = <<18, 52, 86, 120>>

\* {"id":<id>,"result":["http://us.ott.io.mi.com/robomap/1",".../2",".../3",".../4"]}
BatchResponseText(id) ==
    <<123, 34, 105, 100, 34, 58>> \o DecLimbs(id)
        \o <<44, 34, 114, 101, 115, 117, 108, 116, 34, 58, 91, 34, 104, 116, 116, 112, 58, 47, 47, 117, 115, 46, 111, 116, 116, 46, 105, 111, 46, 109, 105, 46, 99, 111, 109, 47, 114, 111, 98, 111, 109, 97, 112, 47, 49, 34, 44, 34, 104, 116, 116, 112, 58, 47, 47, 117, 115, 46, 111, 116, 116, 46, 105, 111, 46, 109, 105, 46, 99, 111, 109, 47, 114, 111, 98, 111, 109, 97, 112, 47, 50, 34, 44, 34, 104, 116, 116, 112, 58, 47, 47, 117, 115, 46, 111, 116, 116, 46, 105, 111, 46, 109, 105, 46, 99, 111, 109, 47, 114, 111, 98, 111, 109, 97, 112, 47, 51, 34, 44, 34, 104, 116, 116, 112, 58, 47, 47, 117, 115, 46, 111, 116, 116, 46, 105, 111, 46, 109, 105, 46, 99, 111, 109, 47, 114, 111, 98, 111, 109, 97, 112, 47, 52, 34, 93, 125>>

\* a text that reads as {"id":<number>,"result":[the four URLs /1 ... /4]}
IsBatchResponse(text) ==
    LET v == ReadJson(text)
    IN  /\ v.ok
        /\ v.v.t = "obj"
        /\ Len(v.v.m) = 2
        /\ v.v.m[1].k = K_id
        /\ v.v.m[1].v.t = "num"
        /\ v.v.m[2].k = K_result
        /\ v.v.m[2].v.t = "arr"
        /\ Len(v.v.m[2].v.a) = 4
        /\ \A d \in 1..4 :
               /\ v.v.m[2].v.a[d].t = "str"
               /\ v.v.m[2].v.a[d].s = S_url \o <<47, 48 + d>>

\* C15 as claimed: every decodable frame whose plaintext has the method
\* "_sync.batch_gen_room_up_url" is answered with the list of the four URLs,
\* whatever else the plaintext holds or lacks.
C15_BatchUrlsAnsweredWhateverTheFields ==
    (pc = "loop_end" /\ InIteration /\ Decoded # None
        /\ PlainMethodIs(M_sync_batch_gen_room_up_url)) =>
        /\ Len(sent) = 1
        /\ PlainOf(sent[1].bytes) # None
        /\ IsBatchResponse(PlainOf(sent[1].bytes)[1])

\* C15 as amended: a decodable frame whose plaintext parses as a Request Message
\* with the method "_sync.batch_gen_room_up_url" is answered with one packet
\* whose plaintext is the request's id and the four URLs /1, /2, /3, /4 in this
\* order; no packet goes out only when the process ends on a serialization or
\* send failure.
C15_BatchUrlsAnswered ==
    InIteration =>
        LET plain == Decoded
            req == from_str(plain[1])
        IN  (plain # None /\ req.ok /\ req.val.method = M_sync_batch_gen_room_up_url) =>
                /\ Len(sent) <= 1
                /\ \A i \in 1..Len(sent) :
                       PlainOf(sent[i].bytes) = Some(BatchResponseText(req.val.id))
                /\ pc = "loop_end" => Len(sent) = 1
                /\ (pc = "exited" /\ sent = <<>>) => cause \in { "serialize", "send" }

\* the request with id 6 for the room upload URLs has been answered
C15_Witness ==
    /\ pc = "loop_end"
    /\ InIteration
    /\ Decoded = Some(Req_batch_gen_room_up_url)
    /\ Len(sent) = 1
    /\ PlainOf(sent[1].bytes) = Some(BatchResponseText(U32(6)))

\* the i-th call decodes, with the same key, the frame the call before encoded
RoundTripAt(i) ==
    /\ i \in 2..Len(calls)
    /\ calls[i].fn = "decode_response"
    /\ calls[i - 1].fn = "encode_response"
    /\ calls[i].frame = calls[i - 1].ret
    /\ calls[i].key = calls[i - 1].key

C17_AtMostOnePacketPerDatagram ==
    /\ Len(sent) <= 1
    /\ n_recv = 0 => (sent = <<>> /\ log = <<>>)
    /\ \A j \in 1..Len(log) :
         log[j].ev = "send" =>
             /\ j > 1
             /\ log[j - 1].ev = "recv"
             /\ log[j - 1].n = log[j].n
    /\ (pc = "loop_end" /\ InIteration) =>
           LET plain == Decoded
               req == from_str(plain[1])
           IN  IF plain = None
               THEN /\ Len(sent) = 1
                    /\ IsTimesync(sent[1].bytes) \/ sent[1].bytes = buf
               ELSE IF req.ok /\ req.val.method \in RoutedMethods
               THEN /\ Len(sent) = 1
                    /\ PlainOf(sent[1].bytes) # None
               ELSE sent = <<>>

\* the first datagram was answered; the second, which does not parse, was not
C17_Witness ==
    /\ pc = "loop_end"
    /\ iter = 2
    /\ ParseFails
    /\ sent = <<>>
    /\ Len(log) = 3
    /\ log[2].ev = "send"
    /\ log[3].ev = "recv"

\* C19: every packet goes to the address the datagram of the same iteration
\* came from.
C19_RepliesGoToTheSender ==
    /\ \A j \in 1..Len(log) :
         log[j].ev = "send" =>
             \E i \in 1..(j - 1) :
                 /\ log[i].ev = "recv"
                 /\ log[i].n = log[j].n
                 /\ log[i].addr = log[j].addr
    /\ iter > 0 => \A i \in 1..Len(sent) : sent[i].to = src

\* two senders, one datagram each: the second packet went to the second sender
C19_Witness ==
    /\ Len(log) = 4
    /\ log[2].ev = "send"
    /\ log[4].ev = "send"
    /\ log[3].addr # log[1].addr
    /\ log[4].addr = log[3].addr
    /\ Len(sent) = 1
    /\ sent[1].to = log[3].addr

\* the packets `out` are what the received bytes d call for under the key,
\* whatever was received or sent before: the handshake (any clock) or d itself
\* on a decode miss, the reply to a routed request (any clock), else nothing
Answers(key, d, out) ==
    LET c == UDPCodec_new(key)
        plain == decode_response(c, SubSeq(d, 1, HeaderLen), SubSeq(d, HeaderLen + 1, Len(d)))
        req == from_str(plain[1])
    IN  IF plain = None
        THEN /\ Len(out) = 1
             /\ IF SubSeq(d, 13, 16) = <<0, 0, 0, 0>>
                THEN IsTimesync(out[1])
                ELSE out[1] = d
        ELSE IF ~req.ok \/ req.val.method \notin RoutedMethods
        THEN out = <<>>
        ELSE /\ Len(out) = 1
             /\ \E now \in Clocks :
                    out[1] = encode_response(c,
                                 to_vec(ResponsePayload_new(req.val.id,
                                            RouteResult(req.val.method, now)[1])),
                                 << d[9] * 256 + d[10], d[11] * 256 + d[12] >>)

\* C18: the outcome for a datagram is a function of its bytes and the cloud key
\* (and the clock): in every iteration that reaches the loop's end, after any
\* history, the packets sent are the ones the datagram calls for; the cloud key
\* in use is the one of the command line.
C18_OutcomeFromDatagramAndKey ==
    /\ (pc = "loop_end" /\ InIteration) =>
           Answers(cloud_key[1], buf, [i \in 1..Len(sent) |-> sent[i].bytes])
    /\ InLoop => cloud_key = opt_str(getopts_parse(argv, 1, <<>>))

\* a decodable frame with stamp 0 came second, after a datagram that got no
\* packet (no handshake before it), and has been routed
C18_Witness ==
    /\ pc = "loop_end"
    /\ iter = 2
    /\ InIteration
    /\ WireStamp = <<0, 0, 0, 0>>
    /\ Decoded = Some(Req_props)
    /\ Len(sent) = 1
    /\ PlainOf(sent[1].bytes) # None
    /\ Len(log) = 3
    /\ log[2].ev = "recv"
====
